---- MODULE Spec2Model ----
(***************************************************************************)
(* Model of checkopenbgpd.py: a nagiosplugin check that runs               *)
(* "bgpctl -s <socket> show", parses the session table, classifies every   *)
(* session (BgpStatus.evaluate) and lets nagiosplugin.Check aggregate the  *)
(* results into an overall state, a summary line and an exit code.         *)
(*                                                                         *)
(* Text is modelled at character level: a Python str is a sequence of      *)
(* one-character strings.  Python's None is the empty tuple and a present  *)
(* value x is <<x>>, so None can be compared with anything it is compared  *)
(* with in the program.  The interpreter is python2.7 (the shebang), where *)
(* None orders below every integer.                                        *)
(***************************************************************************)
EXTENDS Integers, Sequences, FiniteSets, TLC

----------------------------------------------------------------------------
(* Bounds of the model. *)

MaxLines == 2
MaxCritical == 2
MaxWarning == 4
MaxCount == 5

----------------------------------------------------------------------------
(* Python values. *)

None == <<>>
Some(x) == <<x>>
IsNone(o) == o = <<>>
Val(o) == o[1]

SP == " "
NL == "\n"
Digits == <<"0", "1", "2", "3", "4", "5", "6", "7", "8", "9">>

\* nagiosplugin.state: Ok < Warn < Critical < Unknown, also the exit codes.
Ok == 0
Warn == 1
Critical == 2
Unknown == 3

\* platform.node(), read once when the class body runs.
hostname == <<"h">>

\* len(Session._fields)
NumFields == 7

----------------------------------------------------------------------------
(* str methods used by the program. *)

\* The smallest index >= i of a newline in s, Len(s)+1 when there is none.
RECURSIVE FindNL(_, _)
FindNL(s, i) ==
    IF i > Len(s) THEN i
    ELSE IF s[i] = NL THEN i
    ELSE FindNL(s, i + 1)

\* str.splitlines(): cut at every newline; a final newline opens no line.
RECURSIVE splitlines(_)
splitlines(s) ==
    IF s = <<>> THEN <<>>
    ELSE LET i == FindNL(s, 1)
         IN <<SubSeq(s, 1, i - 1)>> \o splitlines(SubSeq(s, i + 1, Len(s)))

\* The largest index <= i of a non-blank character of s, 0 when none.
RECURSIVE SkipSpace(_, _)
SkipSpace(s, i) ==
    IF i = 0 THEN 0
    ELSE IF s[i] # SP THEN i
    ELSE SkipSpace(s, i - 1)

\* The index where the token that ends at j starts.
RECURSIVE TokenStart(_, _)
TokenStart(s, j) ==
    IF j = 1 THEN 1
    ELSE IF s[j - 1] = SP THEN j
    ELSE TokenStart(s, j - 1)

\* str.rsplit(None, maxsplit) on s[1..i]: tokens are taken from the right;
\* once maxsplit tokens are taken, what is left (less its trailing blanks)
\* is one more field, leading blanks included.
RECURSIVE rsplitFrom(_, _, _)
rsplitFrom(s, i, maxsplit) ==
    LET j == SkipSpace(s, i)
    IN IF j = 0 THEN <<>>
       ELSE IF maxsplit = 0 THEN <<SubSeq(s, 1, j)>>
       ELSE LET k == TokenStart(s, j)
            IN rsplitFrom(s, k - 1, maxsplit - 1) \o <<SubSeq(s, k, j)>>

rsplit(s, maxsplit) == rsplitFrom(s, Len(s), maxsplit)

\* str.isdigit(): non-empty and every character a decimal digit.
isdigit(s) ==
    /\ Len(s) > 0
    /\ \A i \in 1..Len(s) : \E d \in 1..10 : Digits[d] = s[i]

DigitValue(c) == (CHOOSE d \in 1..10 : Digits[d] = c) - 1

\* int(s) for a string of digits.
RECURSIVE int(_)
int(s) ==
    IF Len(s) = 0 THEN 0
    ELSE 10 * int(SubSeq(s, 1, Len(s) - 1)) + DigitValue(s[Len(s)])

\* str(n) for an integer n >= 0, as the %s conversion renders it.
RECURSIVE str(_)
str(n) ==
    IF n < 10 THEN <<Digits[n + 1]>>
    ELSE str(n \div 10) \o <<Digits[(n % 10) + 1]>>

\* list[1:]
Rest(l) == IF l = <<>> THEN <<>> ELSE Tail(l)

\* x in list, for a list whose entries are None or strings.
InList(x, list) == \E i \in 1..Len(list) : list[i] = Some(x)

----------------------------------------------------------------------------
(* Session = namedtuple('Session', fields) *)

Session(f) ==
    [Neighbor |-> f[1], AS |-> f[2], MsgRcvd |-> f[3], MsgSent |-> f[4],
     OutQ |-> f[5], Up_Down |-> f[6], State_PrfRcvd |-> f[7]]

----------------------------------------------------------------------------
(* nagiosplugin.Range: "start:end", "~" for minus infinity; an infinite    *)
(* bound is None.                                                          *)

\* The index of the ':' of a range specification.
RECURSIVE FindColon(_, _)
FindColon(spec, i) ==
    IF i > Len(spec) THEN i
    ELSE IF spec[i] = ":" THEN i
    ELSE FindColon(spec, i + 1)

\* nagiosplugin.Range(spec), for the two shapes the program builds.
Range(spec) ==
    LET c == FindColon(spec, 1)
        start == SubSeq(spec, 1, c - 1)
        end == SubSeq(spec, c + 1, Len(spec))
    IN [start |-> IF start = <<"~">> THEN None
                  ELSE IF start = <<>> THEN Some(0)
                  ELSE Some(int(start)),
        end |-> IF end = <<>> THEN None ELSE Some(int(end))]

\* A variant of RangeMatch whose upper bound is exclusive.
RangeMatchExclusive(range, value) ==
    /\ IsNone(range.start) \/ value >= Val(range.start)
    /\ IsNone(range.end) \/ value < Val(range.end)

\* Range.match(value): start <= value <= end.
RangeMatch(range, value) ==
    /\ IsNone(range.start) \/ value >= Val(range.start)
    /\ IsNone(range.end) \/ value <= Val(range.end)

----------------------------------------------------------------------------
(* BgpStatus *)

\* a > b on python2.7 for values that are None or integers: None is below
\* every integer.
Py2Greater(a, b) ==
    IF IsNone(a) THEN FALSE
    ELSE IF IsNone(b) THEN TRUE
    ELSE Val(a) > Val(b)

\* if critical > 0
CriticalEnabled(critical) == Py2Greater(critical, Some(0))

\* if warning > critical
WarningEnabled(warning, critical) == Py2Greater(warning, critical)

\* BgpStatus.__init__
BgpStatus(warning, critical, idle_list) ==
    LET crit == IF CriticalEnabled(critical) THEN Val(critical) ELSE 0
        warn == IF WarningEnabled(warning, critical) THEN Val(warning) ELSE 0
    IN [critical |-> crit,
        critical_range |->
            IF CriticalEnabled(critical)
            THEN Some(Range(<<"~", ":">> \o str(crit)))
            ELSE None,
        warning |-> warn,
        warning_range |->
            IF WarningEnabled(warning, critical)
            THEN Some(Range(str(crit) \o <<":">> \o str(warn)))
            ELSE None,
        idle_list |-> idle_list]

Idle == <<"I", "d", "l", "e">>

\* A hint is a format string with its arguments.
Hint(fmt, args) == [fmt |-> fmt, args |-> args]

\* result_cls(state, hint, metric)
Result(state, hint, metric) == [state |-> state, hint |-> hint, metric |-> metric]

\* nagiosplugin.Metric(name, value, min=0, context='bgpctl')
Metric(name, value) == [name |-> name, value |-> value]

\* The numeric branch of BgpStatus.evaluate.
EvaluateCount(self, metric) ==
    LET value == int(metric.value)
    IN IF ~IsNone(self.critical_range) /\ RangeMatch(Val(self.critical_range), value)
       THEN Result(Critical,
                   Hint("%s: prfx_rcvd %d of %d target;",
                        <<metric.name, value, self.critical>>),
                   Some(metric))
       ELSE IF ~IsNone(self.warning_range) /\ RangeMatch(Val(self.warning_range), value)
       THEN Result(Warn,
                   Hint("%s: prfx_rcvd %d of %d target;",
                        <<metric.name, value, self.warning>>),
                   Some(metric))
       ELSE Result(Ok,
                   Hint("%s=%s pfrx_rcvd;", <<metric.name, metric.value>>),
                   Some(metric))

\* A variant of IdleAllowed that does not look at the state.
IdleAllowedAnyState(self, metric) ==
    /\ ~IsNone(self.idle_list)
    /\ InList(metric.name, Val(self.idle_list))

\* if self.idle_list is not None: if metric.name in self.idle_list
IdleAllowed(self, metric) ==
    /\ metric.value = Idle
    /\ ~IsNone(self.idle_list)
    /\ InList(metric.name, Val(self.idle_list))

\* The state-name branch of BgpStatus.evaluate.
EvaluateState(self, metric) ==
    IF IdleAllowed(self, metric)
    THEN Result(Ok, Hint("%s in idle_list", <<metric.name>>), Some(metric))
    ELSE Result(Critical,
                Hint("%s is %s, should be Established;", <<metric.name, metric.value>>),
                Some(metric))

\* BgpStatus.evaluate
evaluate(self, metric) ==
    IF isdigit(metric.value)
    THEN EvaluateCount(self, metric)
    ELSE EvaluateState(self, metric)

\* CheckBgpCtl.check_session: the trailing field, unchanged.
check_session(session) == session.State_PrfRcvd

----------------------------------------------------------------------------
(* nagiosplugin.Check: results, overall state, summary. *)

\* max of a non-empty set of states.
MaxState(S) == CHOOSE m \in S : \A x \in S : x <= m

StatesOf(rs) == {rs[i].state : i \in 1..Len(rs)}

\* A variant of CheckState that takes the state of the last result.
CheckStateOfLast(rs) == IF rs = <<>> THEN Unknown ELSE rs[Len(rs)].state

\* Check.state: Results.most_significant_state, Unknown when there is no result.
CheckState(rs) == IF rs = <<>> THEN Unknown ELSE MaxState(StatesOf(rs))

HasState(rs, st) == SelectSeq(rs, LAMBDA r : r.state = st)

\* A variant of most_significant that takes every result that is not OK.
AllProblems(rs) == SelectSeq(rs, LAMBDA r : r.state # Ok)

\* Results.most_significant: the results that carry the worst state.
most_significant(rs) == IF rs = <<>> THEN <<>> ELSE HasState(rs, CheckState(rs))

\* iter(results): by decreasing significance, insertion order within a state.
IterResults(rs) ==
    HasState(rs, Unknown) \o HasState(rs, Critical) \o HasState(rs, Warn) \o HasState(rs, Ok)

\* result_stats = " %s%s" % (result, result_stats) over a list: each hint is
\* put in front of those before it.
RECURSIVE Prepended(_)
Prepended(rs) ==
    IF rs = <<>> THEN <<>>
    ELSE Prepended(Tail(rs)) \o <<Head(rs).hint>>

\* AuditSummary.ok
SummaryOk(rs) ==
    [kind |-> "BGP session(s) in correct state (%s)",
     count |-> None,
     stats |-> Prepended(IterResults(rs))]

\* AuditSummary.problem
SummaryProblem(rs) ==
    [kind |-> "%d Session(s): %s",
     count |-> Some(Len(most_significant(rs))),
     stats |-> Prepended(SelectSeq(IterResults(rs), LAMBDA r : r.state # Ok))]

\* Summary.empty, inherited.
SummaryEmpty == [kind |-> "no check results", count |-> None, stats |-> <<>>]

\* What nagiosplugin.guarded prints for an exception that is no CheckError.
SummaryException == [kind |-> "TypeError", count |-> None, stats |-> <<>>]

\* Check.summary_str
summary_str(rs) ==
    IF rs = <<>> THEN SummaryEmpty
    ELSE IF CheckState(rs) = Ok THEN SummaryOk(rs)
    ELSE SummaryProblem(rs)

----------------------------------------------------------------------------
(* CheckBgpCtl._get_sessions *)

\* stdout.splitlines()[1:]
Output(stdout) == Rest(splitlines(stdout))

\* A variant of LineFields that splits once more.
LineFieldsOneMore(line) == rsplit(line, NumFields)

\* line.rsplit(None, len(Session._fields) - 1)
LineFields(line) == rsplit(line, NumFields - 1)

\* A variant of get_sessions that leaves out the lines that do not give the
\* seven fields.
get_sessions_lenient(out) ==
    LET output == Output(out)
        split == SelectSeq([i \in 1..Len(output) |-> LineFields(output[i])],
                           LAMBDA f : Len(f) = NumFields)
    IN IF out # <<>> /\ output # <<>>
       THEN [raised |-> "",
             value |-> Some([i \in 1..Len(split) |-> Session(split[i])])]
       ELSE [raised |-> "", value |-> None]

\* What _get_sessions does once stderr is known to be empty: it returns a
\* list of Session, or None when stdout is empty or has no line after the
\* header, or it raises the TypeError of Session(*fields) when a line does
\* not give exactly the seven fields.
get_sessions(out) ==
    LET output == Output(out)
        split == [i \in 1..Len(output) |-> LineFields(output[i])]
    IN IF out # <<>> /\ output # <<>>
       THEN IF \E i \in 1..Len(split) : Len(split[i]) # NumFields
            THEN [raised |-> "TypeError", value |-> None]
            ELSE [raised |-> "",
                  value |-> Some([i \in 1..Len(split) |-> Session(split[i])])]
       ELSE [raised |-> "", value |-> None]

\* A variant of ErrorMessage that takes the first line of stderr.
ErrorMessageFirstLine(err) ==
    Hint("%s %s", <<hostname, splitlines(err)[1]>>)

\* "%s %s" % (self.hostname, stderr.splitlines()[-1])
ErrorMessage(err) ==
    LET lines == splitlines(err)
    IN Hint("%s %s", <<hostname, lines[Len(lines)]>>)

----------------------------------------------------------------------------
(* The inputs of a run: the command line and what bgpctl prints. *)

PeerA == <<"a">>
PeerB == <<"b">>
Peers == {PeerA, PeerB}

Established == <<"E", "s", "t", "a", "b", "l", "i", "s", "h", "e", "d">>
Active == <<"A", "c", "t", "i", "v", "e">>
StateNames == {Idle, Established, Active}

\* Prefix counts as bgpctl prints them, one of them with two digits.
Counts == {str(n) : n \in 0..MaxCount} \cup {str(MaxCount + 7)}

\* The columns between the neighbor and the trailing field.
MidFields == <<<<"7">>, <<"8">>, <<"9">>, <<"0">>, <<"u">>>>

RECURSIVE Join(_, _)
Join(parts, sep) ==
    IF parts = <<>> THEN <<>>
    ELSE IF Len(parts) = 1 THEN parts[1]
    ELSE parts[1] \o sep \o Join(Tail(parts), sep)

\* A well-formed line of the table.
PlainLine(nb, st) == Join(<<nb>> \o MidFields \o <<st>>, <<SP>>)

\* The same session printed with other spacing, with a description in front
\* of the neighbor, without a neighbor, and lines with no token at all.
OddLines(nb, st) ==
    {<<SP>> \o PlainLine(nb, st),
     PlainLine(nb, st) \o <<SP>>,
     Join(<<nb>> \o MidFields \o <<st>>, <<SP, SP>>),
     Join(<<<<"x">>, nb>> \o MidFields \o <<st>>, <<SP>>),
     Join(<<<<"x">>>>, <<SP, SP>>) \o <<SP, SP>> \o PlainLine(nb, st),
     Join(MidFields \o <<st>>, <<SP>>),
     <<SP>> \o Join(MidFields \o <<st>>, <<SP>>),
     <<>>,
     <<SP>>}

HeaderLine == <<"N", SP, "A", SP, "S">>

\* All sequences of 0..n elements of S.
RECURSIVE UpTo(_, _)
UpTo(S, n) ==
    IF n = 0 THEN {<<>>}
    ELSE LET shorter == UpTo(S, n - 1)
         IN shorter \cup {Append(q, x) : q \in shorter, x \in S}

\* The header and the lines as one text, with or without a final newline.
Text(lines, final) ==
    Join(<<HeaderLine>> \o lines, <<NL>>) \o (IF final THEN <<NL>> ELSE <<>>)

Args(warning, critical, idle_list, ignore_list) ==
    [warning |-> warning, critical |-> critical,
     idle_list |-> idle_list, ignore_list |-> ignore_list]

\* parse_args defaults: --warning 0, no --critical, no --idle-list,
\* --ignore-list [None].
DefaultArgs == Args(Some(0), None, None, <<None>>)

Criticals == {None} \cup {Some(c) : c \in -1..MaxCritical}
Warnings == {Some(w) : w \in 0..MaxWarning}
IdleLists == {None, Some(<<>>), Some(<<Some(PeerA)>>)}
IgnoreLists == {<<None>>, <<Some(PeerB)>>, <<Some(PeerA), Some(PeerB)>>}

Run(a, stdout, stderr) == [args |-> a, stdout |-> stdout, stderr |-> stderr]

\* One session, every threshold policy.
ClassifyRuns ==
    {Run(Args(w, c, il, <<None>>), Text(<<PlainLine(nb, st)>>, TRUE), <<>>) :
        w \in Warnings, c \in Criticals, il \in IdleLists,
        nb \in Peers, st \in Counts \cup StateNames}

\* Several sessions, a few policies, bgpctl failing or not.
ProbeLines ==
    {PlainLine(nb, st) :
        nb \in Peers,
        st \in {str(MaxCritical - 1), str(MaxCritical + 1), str(MaxWarning + 1), Idle}}

ProbeArgs ==
    {Args(t[1], t[2], Some(<<Some(PeerA)>>), ig) :
        t \in {<<Some(MaxWarning), Some(MaxCritical)>>, <<Some(0), None>>},
        ig \in IgnoreLists}

Stderrs == {<<>>, <<"e">>, <<"e", NL, "f", NL>>, <<NL>>}

ProbeRuns ==
    {Run(a, out, err) :
        a \in ProbeArgs,
        out \in {<<>>, HeaderLine} \cup {Text(ls, TRUE) : ls \in UpTo(ProbeLines, MaxLines)},
        err \in Stderrs}

\* Lines in every layout, the default policy.
ParseLines ==
    UNION {OddLines(PeerA, st) \cup {PlainLine(PeerA, st), PlainLine(PeerB, st)} :
        st \in {str(MaxCount), Idle}}

ParseRuns ==
    {Run(DefaultArgs, Text(ls, final), <<>>) :
        ls \in UpTo(ParseLines, MaxLines), final \in BOOLEAN}

Runs == ClassifyRuns \cup ProbeRuns \cup ParseRuns

----------------------------------------------------------------------------
(* The run of main(). *)

VARIABLES args, stdout, stderr, context, pc, sessions, idx, results, exit

vars == <<args, stdout, stderr, context, pc, sessions, idx, results, exit>>

NoExit == [exitcode |-> None, summary |-> None]

\* main() has parsed the command line and built the check; bgpctl will print
\* stdout and stderr when it is run.
Init ==
    \E r \in Runs :
        /\ args = r.args
        /\ stdout = r.stdout
        /\ stderr = r.stderr
        /\ context = BgpStatus(r.args.warning, r.args.critical, r.args.idle_list)
        /\ pc = "start"
        /\ sessions = None
        /\ idx = 1
        /\ results = <<>>
        /\ exit = NoExit

\* _get_sessions raises CheckError; Check._evaluate_resource records it as an
\* Unknown result without a metric.
GetSessionsCheckError ==
    /\ pc = "start"
    /\ stderr # <<>>
    /\ results' = Append(results, Result(Unknown, ErrorMessage(stderr), None))
    /\ pc' = "evaluated"
    /\ UNCHANGED <<args, stdout, stderr, context, sessions, idx, exit>>

\* Session(*fields) raises TypeError, which nagiosplugin.guarded turns into
\* an UNKNOWN exit.
GetSessionsTypeError ==
    /\ pc = "start"
    /\ stderr = <<>>
    /\ get_sessions(stdout).raised = "TypeError"
    /\ exit' = [exitcode |-> Some(Unknown), summary |-> Some(SummaryException)]
    /\ pc' = "done"
    /\ UNCHANGED <<args, stdout, stderr, context, sessions, idx, results>>

\* self.sessions = self._get_sessions()
GetSessions ==
    /\ pc = "start"
    /\ stderr = <<>>
    /\ get_sessions(stdout).raised = ""
    /\ sessions' = get_sessions(stdout).value
    /\ idx' = 1
    /\ pc' = "probe"
    /\ UNCHANGED <<args, stdout, stderr, context, results, exit>>

\* if self.sessions: for session in self.sessions:
Looping == pc = "probe" /\ ~IsNone(sessions) /\ idx <= Len(Val(sessions))

\* A variant of Ignored that ignores nothing.
IgnoredNever(session) == FALSE

\* session.Neighbor not in self.ignore_list
Ignored(session) == InList(session.Neighbor, args.ignore_list)

\* A session of the ignore list yields nothing.
ProbeSkip ==
    /\ Looping
    /\ Ignored(Val(sessions)[idx])
    /\ idx' = idx + 1
    /\ UNCHANGED <<args, stdout, stderr, context, pc, sessions, results, exit>>

\* probe yields a Metric; the check evaluates it in its context and adds the
\* result.
ProbeYield ==
    /\ Looping
    /\ ~Ignored(Val(sessions)[idx])
    /\ LET session == Val(sessions)[idx]
           metric == Metric(session.Neighbor, check_session(session))
       IN results' = Append(results, evaluate(context, metric))
    /\ idx' = idx + 1
    /\ UNCHANGED <<args, stdout, stderr, context, pc, sessions, exit>>

\* The generator is exhausted.
ProbeEnd ==
    /\ pc = "probe"
    /\ ~Looping
    /\ pc' = "evaluated"
    /\ UNCHANGED <<args, stdout, stderr, context, sessions, idx, results, exit>>

\* Runtime.run: the exit code is the check's state, the output its summary.
Finish ==
    /\ pc = "evaluated"
    /\ exit' = [exitcode |-> Some(CheckState(results)),
                summary |-> Some(summary_str(results))]
    /\ pc' = "done"
    /\ UNCHANGED <<args, stdout, stderr, context, sessions, idx, results>>

Next ==
    \/ GetSessionsCheckError
    \/ GetSessionsTypeError
    \/ GetSessions
    \/ ProbeSkip
    \/ ProbeYield
    \/ ProbeEnd
    \/ Finish

Spec == Init /\ [][Next]_vars

----------------------------------------------------------------------------
(* Properties of the classification. *)

\* The results that come from a session: those that carry a metric.
Verdicts == {i \in 1..Len(results) : ~IsNone(results[i].metric)}

NameOf(i) == Val(results[i].metric).name
ValueOf(i) == Val(results[i].metric).value

\* The results of sessions whose trailing field is a string of digits.
CountVerdicts == {i \in Verdicts : isdigit(ValueOf(i))}

\* The results of sessions whose trailing field is a state name.
StateVerdicts == {i \in Verdicts : ~isdigit(ValueOf(i))}

\* The policy has both thresholds, 0 < critical < warning.
WellFormedPolicy ==
    /\ ~IsNone(args.critical)
    /\ ~IsNone(args.warning)
    /\ 0 < Val(args.critical)
    /\ Val(args.critical) < Val(args.warning)

\* C1: under a well-formed policy (0 < critical < warning) a session with the
\* prefix count n is CRITICAL when n <= critical, WARNING when
\* critical < n <= warning and OK when n > warning.
C1_ThresholdBands ==
    WellFormedPolicy =>
        \A i \in CountVerdicts :
            LET n == int(ValueOf(i))
                c == Val(args.critical)
                w == Val(args.warning)
            IN /\ n <= c => results[i].state = Critical
               /\ (c < n /\ n <= w) => results[i].state = Warn
               /\ n > w => results[i].state = Ok

\* A session whose count equals the critical threshold has been classified
\* CRITICAL under a well-formed policy.
C1_Witness ==
    /\ WellFormedPolicy
    /\ \E i \in CountVerdicts :
        /\ int(ValueOf(i)) = Val(args.critical)
        /\ results[i].state = Critical

\* C2: a threshold that is zero or absent disables its check: with critical
\* absent or 0 no count is CRITICAL, with warning 0 (its default) no count
\* is WARNING.
C2_ZeroOrAbsentDisables ==
    \A i \in CountVerdicts :
        /\ (IsNone(args.critical) \/ args.critical = Some(0))
               => results[i].state # Critical
        /\ args.warning = Some(0) => results[i].state # Warn

\* The name is in the idle allowlist given on the command line.
InIdleList(name) ==
    /\ ~IsNone(args.idle_list)
    /\ \E j \in 1..Len(Val(args.idle_list)) : Val(args.idle_list)[j] = Some(name)

\* C3: a session whose trailing field is a state name is CRITICAL with the
\* hint "<neighbor> is <state>, should be Established;", except when the state
\* is Idle and the neighbor is in the idle allowlist: then it is OK with the
\* hint "<neighbor> in idle_list".  An absent allowlist allows nothing.
C3_StateNames ==
    \A i \in StateVerdicts :
        IF ValueOf(i) = <<"I", "d", "l", "e">> /\ InIdleList(NameOf(i))
        THEN /\ results[i].state = Ok
             /\ results[i].hint.fmt = "%s in idle_list"
             /\ results[i].hint.args = <<NameOf(i)>>
        ELSE /\ results[i].state = Critical
             /\ results[i].hint.fmt = "%s is %s, should be Established;"
             /\ results[i].hint.args = <<NameOf(i), ValueOf(i)>>

\* An Idle session of an allowed neighbor has been classified OK.
C3_Witness ==
    \E i \in StateVerdicts :
        /\ ValueOf(i) = <<"I", "d", "l", "e">>
        /\ InIdleList(NameOf(i))
        /\ results[i].state = Ok

----------------------------------------------------------------------------
(* Properties of the probe and of the aggregation. *)

\* bgpctl reported no error and every line was parsed: the probe ran to its
\* end.
ProbeSucceeded ==
    /\ pc \in {"evaluated", "done"}
    /\ stderr = <<>>
    /\ exit.summary # Some(SummaryException)

SessionList == IF IsNone(sessions) THEN <<>> ELSE Val(sessions)

InIgnoreList(name) ==
    \E j \in 1..Len(args.ignore_list) : args.ignore_list[j] = Some(name)

\* The parsed sessions whose neighbor is not in the ignore list, in order.
Kept == SelectSeq(SessionList, LAMBDA s : ~InIgnoreList(s.Neighbor))

\* C4: after a successful probe the results correspond one to one, in order,
\* to the parsed sessions whose neighbor is not in the ignore list; each is
\* OK, WARNING or CRITICAL, never UNKNOWN; an ignored session has no result.
C4_VerdictPerKeptSession ==
    ProbeSucceeded =>
        /\ Len(results) = Len(Kept)
        /\ \A i \in 1..Len(results) :
            /\ results[i].metric =
                   Some([name |-> Kept[i].Neighbor, value |-> Kept[i].State_PrfRcvd])
            /\ results[i].state \in {Ok, Warn, Critical}
            /\ ~InIgnoreList(Val(results[i].metric).name)

\* A probe has finished in which one session was ignored and another, listed
\* after it, got its verdict.
C4_Witness ==
    /\ ProbeSucceeded
    /\ pc = "done"
    /\ Len(SessionList) >= 2
    /\ InIgnoreList(SessionList[1].Neighbor)
    /\ Len(results) >= 1
    /\ Len(results) < Len(SessionList)

\* C5: with at least one result, the overall state is the most severe state
\* among the results (OK < WARNING < CRITICAL < UNKNOWN): it is OK only when
\* all are OK, and CRITICAL as soon as one is CRITICAL and none is UNKNOWN,
\* wherever it stands in the list.
C5_OverallIsMaximum ==
    (pc = "done" /\ results # <<>>) =>
        LET overall == Val(exit.exitcode)
        IN /\ \E i \in 1..Len(results) : results[i].state = overall
           /\ \A i \in 1..Len(results) : results[i].state <= overall
           /\ overall = Ok <=> \A i \in 1..Len(results) : results[i].state = Ok
           /\ ((\E i \in 1..Len(results) : results[i].state = Critical)
                 /\ (\A i \in 1..Len(results) : results[i].state # Unknown))
                => overall = Critical

\* A run has ended CRITICAL whose first session is CRITICAL and whose last
\* session is OK.
C5_Witness ==
    /\ pc = "done"
    /\ Len(results) >= 2
    /\ results[1].state = Critical
    /\ results[Len(results)].state = Ok
    /\ exit.exitcode = Some(Critical)

\* C6: when bgpctl reported no error and there is no verdict (nothing
\* printed, only the header printed, or every session ignored), the probe
\* ends without error and the overall state is OK.
C6_EmptyIsOk ==
    (pc = "done" /\ ProbeSucceeded /\ results = <<>>) => exit.exitcode = Some(Ok)

\* The text after the last newline that is not the final character.
LastLine(text) ==
    LET e == IF text[Len(text)] = NL THEN Len(text) - 1 ELSE Len(text)
        starts == {k \in 0..e : k = 0 \/ text[k] = NL}
        k == CHOOSE x \in starts : \A y \in starts : y <= x
    IN SubSeq(text, k + 1, e)

\* C7: when bgpctl writes anything to stderr, whatever it writes to stdout,
\* the probe fails with the error "<hostname> <last line of stderr>": the
\* only result is that UNKNOWN one, no output is parsed and no session gets a
\* verdict.
C7_StderrFailsProbe ==
    (stderr # <<>> /\ pc # "start") =>
        /\ Len(results) = 1
        /\ results[1].state = Unknown
        /\ results[1].hint.fmt = "%s %s"
        /\ results[1].hint.args = <<hostname, LastLine(stderr)>>
        /\ IsNone(results[1].metric)
        /\ IsNone(sessions)
        /\ pc = "done" => exit.exitcode = Some(Unknown)

\* bgpctl printed a table with sessions and two lines of error; the run has
\* ended UNKNOWN.
C7_Witness ==
    /\ pc = "done"
    /\ stderr = <<"e", NL, "f", NL>>
    /\ Len(Output(stdout)) >= 2
    /\ Len(results) = 1
    /\ exit.exitcode = Some(Unknown)

----------------------------------------------------------------------------
(* Properties of the parser. *)

\* The tokens of a line, left to right: the maximal runs of non-blank
\* characters.
RECURSIVE Tokens(_)
Tokens(line) ==
    IF line = <<>> THEN <<>>
    ELSE IF Head(line) = SP THEN Tokens(Tail(line))
    ELSE LET rest == Tokens(Tail(line))
         IN IF Len(line) = 1 \/ line[2] = SP
            THEN <<<<Head(line)>>>> \o rest
            ELSE <<<<Head(line)>> \o Head(rest)>> \o Tail(rest)

\* The lines bgpctl printed after the header.
DataLines == Rest(splitlines(stdout))

\* Every line after the header has the seven columns, or more tokens.
AllWellFormed == \A i \in 1..Len(DataLines) : Len(Tokens(DataLines[i])) >= NumFields

C9_MalformedLineFailsProbe ==
    (\E i \in 1..Len(DataLines) : Len(Tokens(DataLines[i])) < NumFields) =>
        /\ pc # "probe"
        /\ Verdicts = {}
        /\ IsNone(sessions)
        /\ pc = "done" => exit.exitcode = Some(Unknown)

\* A run has ended whose first line was well formed and whose second line
\* lacked a column.
C9_Witness ==
    /\ pc = "done"
    /\ stderr = <<>>
    /\ Len(DataLines) = 2
    /\ Len(Tokens(DataLines[1])) = NumFields
    /\ Len(Tokens(DataLines[2])) = NumFields - 1
    /\ results = <<>>
    /\ exit.exitcode = Some(Unknown)

\* The problem summary was printed.
ProblemPrinted ==
    /\ pc = "done"
    /\ ~IsNone(exit.summary)
    /\ Val(exit.summary).kind = "%d Session(s): %s"

\* C10 as stated: after a probe that ran to its end with an overall state
\* other than OK, the number in front of the problem summary is the number
\* of evaluated sessions.
C10_CountIsTotal ==
    (ProblemPrinted /\ ProbeSucceeded) =>
        Val(exit.summary).count = Some(Cardinality(Verdicts))

\* C10, amended: the number in front of the problem summary is the number of
\* results whose state is the overall state.
C10_CountIsMostSignificant ==
    ProblemPrinted =>
        Val(exit.summary).count =
            Some(Cardinality({i \in 1..Len(results) :
                                  Some(results[i].state) = exit.exitcode}))

\* A problem summary has been printed for a CRITICAL and a WARNING session:
\* its number is 1.
C10_Witness ==
    /\ ProblemPrinted
    /\ \E i \in Verdicts : results[i].state = Critical
    /\ \E i \in Verdicts : results[i].state = Warn
    /\ Val(exit.summary).count = Some(1)

====
